---- MODULE Spec2Model ----
(***************************************************************************)
(* Model of src/dashboard.py: a Streamlit script over three Supabase       *)
(* tables (seo_snapshots, seo_tasks, page_performance).  One script run is *)
(* a walk of pc through the script's top-level statements; a user          *)
(* interaction reruns the script from the top with a fresh namespace.      *)
(*                                                                         *)
(* Values read from the store are tagged records: None (JSON null), NaN    *)
(* (what pandas puts in a numeric column that holds a null), Num(n).       *)
(* psi_lcp is kept in tenths of a second, so the 2.5 s threshold is 25.    *)
(***************************************************************************)
EXTENDS Integers, Sequences, FiniteSets, TLC

\* ---- bounds of the model ----
MaxSnap == 2
MaxTask == 2

\* ---- program constants ----
SnapshotLimit == 30
LcpThreshold == 25

\* ---- values ----
None == [k |-> "None", v |-> 0]
NaN == [k |-> "nan", v |-> 0]
Num(n) == [k |-> "num", v |-> n]
Unset == [k |-> "unset", v |-> 0]

ScoreValues == {None, Num(0), Num(75)}
LcpValues == {None, Num(20), Num(31)}
SnapshotRows == [overall_score : ScoreValues, psi_lcp : LcpValues]
TaskIds == 1..MaxTask
\* the other fields of a task row stand as one, priority, fixed per task
PriorityOf(id) == IF id % 2 = 1 THEN "Hoej" ELSE "Lav"
TaskTables ==
  UNION {{[id \in D |-> [status |-> st[id], priority |-> PriorityOf(id)]] :
            st \in [D -> {"pending", "done"}]} : D \in SUBSET TaskIds}
PageTables == {<<>>, <<"forside">>}

SeqsUpTo(S, n) == UNION {[1..m -> S] : m \in 0..n}

VARIABLES
  seo_snapshots,     \* table seo_snapshots, newest first (created_at desc)
  seo_tasks,         \* table seo_tasks: id -> row, for the ids that exist
  page_performance,  \* table page_performance
  pc,                \* position of the current script run
  ns,                \* names bound in the current run's namespace
  df, tasks,         \* the script's globals df and tasks
  delta_score,       \* the script's global delta_score
  delta_color,       \* delta_color argument of the LCP metric
  clicked,           \* id of the button whose click caused this run, 0 if none
  buttons,           \* ids of the "Marker som udfoert" buttons on the page
  ui,                \* what the page shows: [main, tasks, products]
  err,               \* exception that ended the run, "none" if none
  failed,            \* store operations that failed during the run
  attempts,          \* executions of the task update during the run
  arg,               \* task_id of the last mark_task_done call, 0 if none
  before,            \* seo_tasks as that call found it (history)
  marked             \* ids whose update completed (history)

vars == <<seo_snapshots, seo_tasks, page_performance, pc, ns, df, tasks,
          delta_score, delta_color, clicked, buttons, ui, err, failed,
          attempts, arg, before, marked>>

store == <<seo_snapshots, seo_tasks, page_performance>>

BlankUi == [main |-> "none", tasks |-> "none", products |-> "none"]

\* ---- pandas / python helpers ----

Take(s, n) == IF Len(s) <= n THEN s ELSE SubSeq(s, 1, n)

\* pd.DataFrame(response.data), one column: all-null stays object/None, no
\* null stays numeric, a mix becomes float64 with NaN in place of null.
Coerced(col) ==
  IF \A i \in DOMAIN col : col[i] = None THEN col
  ELSE [i \in DOMAIN col |-> IF col[i] = None THEN NaN ELSE col[i]]

DataFrame(rows) ==
  LET score == Coerced([i \in DOMAIN rows |-> rows[i].overall_score])
      lcp == Coerced([i \in DOMAIN rows |-> rows[i].psi_lcp])
  IN [i \in DOMAIN rows |-> [overall_score |-> score[i], psi_lcp |-> lcp[i]]]

\* x or 0: None and 0 are falsy, NaN and every other number are truthy.
Or0(x) == IF x = None \/ x = Num(0) THEN Num(0) ELSE x

\* rows of seo_tasks with status = pending, created_at desc (ids grow with
\* creation time)
RECURSIVE RowsDesc(_, _)
RowsDesc(t, n) ==
  IF n = 0 THEN <<>>
  ELSE IF n \in DOMAIN t
       THEN <<[id |-> n, status |-> t[n].status, priority |-> t[n].priority]>>
            \o RowsDesc(t, n - 1)
       ELSE RowsDesc(t, n - 1)

\* the query without .eq("status", "pending")
AllRows(t) == RowsDesc(t, MaxTask)

PendingRows(t) == SelectSeq(RowsDesc(t, MaxTask), LAMBDA r : r.status = "pending")

\* the update sent and never applied
UpdateTasksLost(t, task_id) == t

\* the update flipping the status instead of setting it
UpdateTasksToggle(t, task_id) ==
  [id \in DOMAIN t |->
     IF id = task_id
     THEN [t[id] EXCEPT !.status = IF @ = "done" THEN "pending" ELSE "done"]
     ELSE t[id]]

\* the update without .eq("id", task_id)
UpdateTasksAll(t, task_id) == [id \in DOMAIN t |-> [t[id] EXCEPT !.status = "done"]]

\* update({"status": "done"}).eq("id", task_id): every row whose id matches
UpdateTasks(t, task_id) ==
  [id \in DOMAIN t |-> IF id = task_id THEN [t[id] EXCEPT !.status = "done"]
                       ELSE t[id]]

Ids(rows) == {rows[i].id : i \in DOMAIN rows}

\* ---- data functions (section 2 of the script) ----

\* get_seo_data(): the query, limited to 30 rows, as a DataFrame; an empty
\* DataFrame when anything in the try block raises.
GetSeoData(ok) ==
  [raised |-> FALSE,
   value |-> IF ok THEN DataFrame(Take(seo_snapshots, SnapshotLimit)) ELSE <<>>]

\* get_pending_tasks() without its try/except
GetPendingTasksNoTry(ok) ==
  [raised |-> ~ok,
   value |-> IF ok THEN PendingRows(seo_tasks) ELSE <<>>]

\* get_pending_tasks(): the rows with status = pending; [] when the query raises.
GetPendingTasks(ok) ==
  [raised |-> FALSE,
   value |-> IF ok THEN PendingRows(seo_tasks) ELSE <<>>]

\* mark_task_done with the update wrapped in try/except: pass
MarkTaskDoneSwallow(task_id, ok) ==
  [raised |-> FALSE,
   tasks |-> IF ok THEN UpdateTasks(seo_tasks, task_id) ELSE seo_tasks,
   executions |-> 1]

\* mark_task_done(task_id): one execute() of the update, not inside any try;
\* st.cache_data.clear() and st.rerun() follow only when it returns.
MarkTaskDone(task_id, ok) ==
  [raised |-> ~ok,
   tasks |-> IF ok THEN UpdateTasks(seo_tasks, task_id) ELSE seo_tasks,
   executions |-> 1]

\* ---- top KPI section ----

\* the delta taken against a zero baseline when there is no previous row
DeltaScoreNoGuard(d) ==
  IF Len(d) > 1
  THEN LET a == Or0(d[1].overall_score)
           b == Or0(d[2].overall_score)
       IN IF a = NaN \/ b = NaN
          THEN [raised |-> TRUE, value |-> Num(0)]
          ELSE [raised |-> FALSE, value |-> Num(a.v - b.v)]
  ELSE IF Len(d) = 1
       THEN [raised |-> FALSE, value |-> Num(Or0(d[1].overall_score).v)]
       ELSE [raised |-> FALSE, value |-> Num(0)]

\* delta_score = 0; if len(df) > 1: int(a or 0) - int(b or 0).  int(nan)
\* raises ValueError, after delta_score was bound to 0.
DeltaScore(d) ==
  IF Len(d) > 1
  THEN LET a == Or0(d[1].overall_score)
           b == Or0(d[2].overall_score)
       IN IF a = NaN \/ b = NaN
          THEN [raised |-> TRUE, value |-> Num(0)]
          ELSE [raised |-> FALSE, value |-> Num(a.v - b.v)]
  ELSE [raised |-> FALSE, value |-> Num(0)]

\* "inverse" if lcp_val > 2.5 else "normal".  None > 2.5 raises TypeError;
\* nan > 2.5 is False.
LcpColor(lcp_val) ==
  IF lcp_val = None THEN [raised |-> TRUE, value |-> "none"]
  ELSE IF lcp_val = NaN THEN [raised |-> FALSE, value |-> "normal"]
  ELSE [raised |-> FALSE,
        value |-> IF lcp_val.v > LcpThreshold THEN "inverse" ELSE "normal"]

\* ---- tab 3: the page_performance read and what the tab shows ----
ProductsTab(ok) ==
  [raised |-> FALSE,
   view |-> IF ~ok THEN "error"
            ELSE IF page_performance # <<>> THEN "table" ELSE "no_data"]

\* buttons drawn by the loop of tab 2 up to and including the one for id
RenderedUpTo(rows, id) ==
  {rows[i].id : i \in {j \in DOMAIN rows : \A m \in 1..(j - 1) : rows[m].id # id}}

\* ---- initial states ----

StoreInit ==
  /\ seo_snapshots \in SeqsUpTo(SnapshotRows, MaxSnap)
  /\ seo_tasks \in TaskTables
  /\ page_performance \in PageTables

RunInit ==
  /\ ns = {} /\ df = <<>> /\ tasks = <<>>
  /\ delta_score = Unset /\ delta_color = "none"
  /\ clicked = 0 /\ buttons = {} /\ ui = BlankUi
  /\ err = "none" /\ failed = {} /\ attempts = 0 /\ arg = 0
  /\ before = <<>> /\ marked = {}

Init == StoreInit /\ RunInit /\ pc = "get_seo_data"

\* ---- one script run ----

\* line 75; the first statement of a run
GetSeoDataStep ==
  /\ pc = "get_seo_data"
  /\ \E ok \in BOOLEAN :
       LET r == GetSeoData(ok) IN
       /\ df' = r.value
       /\ failed' = IF ok THEN {} ELSE {"seo_snapshots"}
       /\ err' = IF r.raised THEN "ReadError" ELSE "none"
       /\ pc' = IF r.raised THEN "error" ELSE "get_pending_tasks"
  /\ ns' = {"df"}
  /\ attempts' = 0 /\ arg' = 0 /\ before' = <<>>
  /\ UNCHANGED <<store, tasks, delta_score, delta_color, clicked, buttons, ui, marked>>

\* line 76
GetPendingTasksStep ==
  /\ pc = "get_pending_tasks"
  /\ \E ok \in BOOLEAN :
       LET r == GetPendingTasks(ok) IN
       /\ tasks' = r.value
       /\ failed' = IF ok THEN failed ELSE failed \cup {"seo_tasks"}
       /\ err' = IF r.raised THEN "ReadError" ELSE err
       /\ pc' = IF r.raised THEN "error" ELSE "check_empty"
  /\ ns' = ns \cup {"tasks"}
  /\ UNCHANGED <<store, df, delta_score, delta_color, clicked, buttons, ui,
                 attempts, arg, before, marked>>

\* lines 78-80: st.info and st.stop() on an empty DataFrame
StopIfEmpty ==
  /\ pc = "check_empty"
  /\ IF df = <<>>
     THEN /\ ui' = [ui EXCEPT !.main = "waiting"]
          /\ pc' = "stopped"
          /\ clicked' = 0
     ELSE /\ pc' = "delta_score"
          /\ UNCHANGED <<ui, clicked>>
  /\ UNCHANGED <<store, ns, df, tasks, delta_score, delta_color, buttons, err,
                 failed, attempts, arg, before, marked>>

\* lines 83-86
DeltaScoreStep ==
  /\ pc = "delta_score"
  /\ LET r == DeltaScore(df) IN
     /\ delta_score' = r.value
     /\ err' = IF r.raised THEN "ValueError" ELSE err
     /\ pc' = IF r.raised THEN "error" ELSE "kpi_grid"
     /\ clicked' = IF r.raised THEN 0 ELSE clicked
  /\ ns' = ns \cup {"latest", "delta_score"}
  /\ UNCHANGED <<store, df, tasks, delta_color, buttons, ui, failed, attempts,
                 arg, before, marked>>

\* lines 89-99; lines 101-158 that follow (the tabs, the overview tab with
\* its charts) only draw from df and change nothing modelled here
KpiGrid ==
  /\ pc = "kpi_grid"
  /\ LET r == LcpColor(df[1].psi_lcp) IN
     /\ delta_color' = r.value
     /\ err' = IF r.raised THEN "TypeError" ELSE err
     /\ pc' = IF r.raised THEN "error" ELSE "tab_tasks"
     /\ clicked' = IF r.raised THEN 0 ELSE clicked
     /\ ui' = IF r.raised THEN ui ELSE [ui EXCEPT !.main = "kpi"]
  /\ ns' = ns \cup {"lcp_val"}
  /\ UNCHANGED <<store, df, tasks, delta_score, buttons, failed, attempts, arg,
                 before, marked>>

\* the part of mark_task_done that both its callers share: the update, its
\* exception leaving the function, and on return the rerun (a fresh run
\* starts at get_seo_data with an empty namespace)
MarkTaskDoneCall(task_id, ok) ==
  LET r == MarkTaskDone(task_id, ok) IN
  /\ seo_tasks' = r.tasks
  /\ attempts' = attempts + r.executions
  /\ arg' = task_id
  /\ before' = seo_tasks
  /\ err' = IF r.raised THEN "APIError" ELSE err
  /\ failed' = IF ok THEN failed ELSE failed \cup {"update"}
  /\ marked' = IF ok /\ ~r.raised THEN marked \cup {task_id} ELSE marked
  /\ pc' = IF r.raised THEN "error" ELSE "get_seo_data"
  /\ ns' = IF r.raised THEN ns ELSE {}
  /\ df' = IF r.raised THEN df ELSE <<>>
  /\ tasks' = IF r.raised THEN tasks ELSE <<>>
  /\ delta_score' = IF r.raised THEN delta_score ELSE Unset
  /\ delta_color' = IF r.raised THEN delta_color ELSE "none"
  /\ UNCHANGED <<seo_snapshots, page_performance>>

\* lines 161-181: the task tab; the button whose click caused this run
\* returns True when the loop reaches it
TabTasks ==
  /\ pc = "tab_tasks"
  /\ IF clicked \in Ids(tasks)
     THEN /\ \E ok \in BOOLEAN : MarkTaskDoneCall(clicked, ok)
          /\ buttons' = IF pc' = "error" THEN RenderedUpTo(tasks, clicked) ELSE {}
          /\ ui' = IF pc' = "error" THEN [ui EXCEPT !.tasks = "list"] ELSE BlankUi
          /\ clicked' = 0
     ELSE /\ ui' = [ui EXCEPT !.tasks = IF tasks = <<>> THEN "no_open" ELSE "list"]
          /\ buttons' = Ids(tasks)
          /\ pc' = "tab_products"
          /\ UNCHANGED <<store, ns, df, tasks, delta_score, delta_color, clicked,
                         err, failed, attempts, arg, before, marked>>

\* lines 184-250; the last statement of a run
TabProducts ==
  /\ pc = "tab_products"
  /\ \E ok \in BOOLEAN :
       LET r == ProductsTab(ok) IN
       /\ ui' = [ui EXCEPT !.products = r.view]
       /\ failed' = IF ok THEN failed ELSE failed \cup {"page_performance"}
       /\ err' = IF r.raised THEN "ReadError" ELSE err
       /\ pc' = IF r.raised THEN "error" ELSE "idle"
  /\ clicked' = 0
  /\ UNCHANGED <<store, ns, df, tasks, delta_score, delta_color, buttons,
                 attempts, arg, before, marked>>

\* ---- the viewer ----

Rerun(c) ==
  /\ pc' = "get_seo_data"
  /\ clicked' = c
  /\ ns' = {} /\ df' = <<>> /\ tasks' = <<>>
  /\ delta_score' = Unset /\ delta_color' = "none"
  /\ buttons' = {} /\ ui' = BlankUi
  /\ err' = "none" /\ failed' = {} /\ attempts' = 0 /\ arg' = 0
  /\ before' = <<>>
  /\ UNCHANGED <<store, marked>>

\* a click on one of the buttons the page shows
Click ==
  /\ pc \in {"idle", "error"}
  /\ \E id \in buttons : Rerun(id)

\* any other interaction (the selectbox, a reload)
Refresh ==
  /\ pc \in {"idle", "stopped", "error"}
  /\ Rerun(0)

Next ==
  \/ GetSeoDataStep
  \/ GetPendingTasksStep
  \/ StopIfEmpty
  \/ DeltaScoreStep
  \/ KpiGrid
  \/ TabTasks
  \/ TabProducts
  \/ Click
  \/ Refresh

Spec == Init /\ [][Next]_vars

\* ---- the data functions called directly, with any argument on any store ----

InitCall == StoreInit /\ RunInit /\ pc = "call"

CallGetSeoData ==
  /\ pc = "call"
  /\ \E ok \in BOOLEAN :
       LET r == GetSeoData(ok) IN
       /\ df' = r.value
       /\ failed' = IF ok THEN failed ELSE failed \cup {"seo_snapshots"}
       /\ err' = IF r.raised THEN "ReadError" ELSE err
       /\ pc' = IF r.raised THEN "error" ELSE "returned"
  /\ ns' = {"df"}
  /\ UNCHANGED <<store, tasks, delta_score, delta_color, clicked, buttons, ui,
                 attempts, arg, before, marked>>

CallGetPendingTasks ==
  /\ pc = "call"
  /\ \E ok \in BOOLEAN :
       LET r == GetPendingTasks(ok) IN
       /\ tasks' = r.value
       /\ failed' = IF ok THEN failed ELSE failed \cup {"seo_tasks"}
       /\ err' = IF r.raised THEN "ReadError" ELSE err
       /\ pc' = IF r.raised THEN "error" ELSE "returned"
  /\ ns' = {"tasks"}
  /\ UNCHANGED <<store, df, delta_score, delta_color, clicked, buttons, ui,
                 attempts, arg, before, marked>>

CallProductsTab ==
  /\ pc = "call"
  /\ \E ok \in BOOLEAN :
       LET r == ProductsTab(ok) IN
       /\ ui' = [ui EXCEPT !.products = r.view]
       /\ failed' = IF ok THEN failed ELSE failed \cup {"page_performance"}
       /\ err' = IF r.raised THEN "ReadError" ELSE err
       /\ pc' = IF r.raised THEN "error" ELSE "returned"
  /\ UNCHANGED <<store, ns, df, tasks, delta_score, delta_color, clicked,
                 buttons, attempts, arg, before, marked>>

CallMarkTaskDone ==
  /\ pc = "call"
  /\ \E task_id \in TaskIds, ok \in BOOLEAN : MarkTaskDoneCall(task_id, ok)
  /\ UNCHANGED <<clicked, buttons, ui>>

\* the caller takes over again after the return, the rerun request or the
\* exception, and drops what the call gave it
Return ==
  /\ pc \in {"returned", "get_seo_data", "error"}
  /\ pc' = "call"
  /\ ns' = {} /\ df' = <<>> /\ tasks' = <<>> /\ ui' = BlankUi
  /\ err' = "none" /\ failed' = {} /\ attempts' = 0 /\ arg' = 0
  /\ before' = <<>>
  /\ UNCHANGED <<store, delta_score, delta_color, clicked, buttons, marked>>

NextCall ==
  \/ CallGetSeoData
  \/ CallGetPendingTasks
  \/ CallProductsTab
  \/ CallMarkTaskDone
  \/ Return

SpecCall == InitCall /\ [][NextCall]_vars

\* ======================= the claims =======================

\* coerce of the specification: null is 0, a number is itself
Coerce(x) == IF x = None THEN 0 ELSE x.v

\* the update of the last mark_task_done call was executed / raised
MarkCalled == attempts > 0
WriteFailed == "update" \in failed

\* C1 (as claimed): with two or more snapshots, the delta computation ends
\* with delta_score = coerce(a) - coerce(b) for the two newest values a, b of
\* the store, nulls included, whatever the later snapshots hold.
C1_DeltaIsCoercedDifference ==
  ("delta_score" \in ns /\ Len(df) >= 2) =>
     /\ err # "ValueError"
     /\ delta_score = Num(Coerce(seo_snapshots[1].overall_score)
                          - Coerce(seo_snapshots[2].overall_score))

\* C2: with zero or one snapshot, every delta the run has produced is 0 (with
\* none, the run stops before producing one).
C2_ShortSequenceDeltaZero ==
  ("df" \in ns /\ Len(df) <= 1) =>
     /\ delta_score \in {Unset, Num(0)}
     /\ ("delta_score" \in ns => delta_score = Num(0) /\ err # "ValueError")

C2_Witness ==
  /\ "delta_score" \in ns /\ Len(df) = 1
  /\ seo_snapshots[1].overall_score = None
  /\ delta_score = Num(0)

\* C3 (as claimed): the KPI computation never ends in an error, whatever
\* metric is null.
C3_KpiTotal == err \notin {"ValueError", "TypeError"}

\* C4: the fetched task list, and the buttons drawn from it, hold only tasks
\* that were pending when fetched (each row carries the status it was read
\* with) and are pending in the store.
C4_FetchedTasksArePending ==
  /\ \A i \in DOMAIN tasks :
       /\ tasks[i].status = "pending"
       /\ tasks[i].id \in DOMAIN seo_tasks
       /\ seo_tasks[tasks[i].id].status = "pending"
  /\ \A id \in buttons : id \in DOMAIN seo_tasks /\ seo_tasks[id].status = "pending"

C4_Witness ==
  /\ pc = "idle" /\ tasks # <<>> /\ buttons # {}
  /\ marked # {}
  /\ \E id \in DOMAIN seo_tasks : seo_tasks[id].status = "done"

\* C5: a completed update of mark_task_done is followed at once by a fresh
\* run (nothing of the old run's data or page is kept), and no task list
\* fetched, and no button drawn, after it holds the marked id.
C5_MarkedExcludedAfterRefetch ==
  [][ /\ (marked' # marked) =>
           /\ arg' \in marked'
           /\ arg' \in DOMAIN seo_tasks' /\ seo_tasks'[arg'].status = "done"
           /\ pc' = "get_seo_data" /\ ns' = {} /\ tasks' = <<>> /\ df' = <<>>
           /\ buttons' = {} /\ ui' = BlankUi
      /\ Ids(tasks') \cap marked' = {}
      /\ buttons' \cap marked' = {} ]_vars

C5_Witness ==
  /\ pc = "idle" /\ marked # {}
  /\ "tasks" \in ns /\ tasks # <<>> /\ failed = {}

\* C6: no step takes a task from done to any other status, or removes it.
C6_DoneStaysDone ==
  [][ \A id \in DOMAIN seo_tasks :
        seo_tasks[id].status = "done" =>
          id \in DOMAIN seo_tasks' /\ seo_tasks'[id].status = "done" ]_vars

C6_Witness ==
  /\ MarkCalled /\ ~WriteFailed
  /\ \E id \in DOMAIN before : before[id].status = "pending" /\ id = arg
  /\ \E id \in DOMAIN before : before[id].status = "done" /\ id # arg
  /\ \A id \in DOMAIN seo_tasks : seo_tasks[id].status = "done"

\* C7: a step changes the store only by mark_task_done setting the status of
\* the row whose id is its argument; no row is created or deleted, no other
\* field and no other table changes, and the reads change nothing.
C7_MarkChangesOnlyTargetStatus ==
  [][ /\ seo_snapshots' = seo_snapshots
      /\ page_performance' = page_performance
      /\ DOMAIN seo_tasks' = DOMAIN seo_tasks
      /\ \A id \in DOMAIN seo_tasks :
           seo_tasks'[id] # seo_tasks[id] =>
             /\ attempts' = attempts + 1
             /\ id = arg'
             /\ seo_tasks'[id] = [seo_tasks[id] EXCEPT !.status = "done"]
      /\ (attempts' = attempts + 1 /\ err' = "none" /\ arg' \in DOMAIN seo_tasks)
           => seo_tasks'[arg'].status = "done" ]_vars

C7_Witness ==
  /\ MarkCalled /\ ~WriteFailed
  /\ arg \in DOMAIN before /\ before[arg].status = "pending"
  /\ seo_tasks[arg].status = "done"
  /\ \E id \in DOMAIN seo_tasks : id # arg /\ seo_tasks[id].status = "pending"

\* C8 (as claimed): a failed read is never raised, yields the empty result,
\* and the page shows the neutral state: the waiting note, no open tasks, no
\* product data.
C8_ReadsFailSoftly ==
  /\ err # "ReadError"
  /\ "seo_snapshots" \in failed =>
       /\ df = <<>>
       /\ pc \in {"get_pending_tasks", "check_empty", "stopped"}
       /\ pc = "stopped" => ui.main = "waiting"
  /\ "seo_tasks" \in failed =>
       /\ tasks = <<>> /\ buttons = {}
       /\ ui.tasks \in {"none", "no_open"}
  /\ "page_performance" \in failed => ui.products = "no_data"

\* C8 (amended): as claimed for the snapshot and the task read; a failed
\* page-performance read is caught as well, the run ends normally, and the
\* product tab shows an error message.
C8_ReadsCaught ==
  /\ err # "ReadError"
  /\ "seo_snapshots" \in failed =>
       /\ df = <<>>
       /\ pc \in {"get_pending_tasks", "check_empty", "stopped"}
       /\ pc = "stopped" => ui.main = "waiting"
  /\ "seo_tasks" \in failed =>
       /\ tasks = <<>> /\ buttons = {}
       /\ ui.tasks \in {"none", "no_open"}
  /\ "page_performance" \in failed =>
       /\ ui.products = "error"
       /\ pc = "idle" /\ err = "none"

C8_Witness ==
  /\ failed = {"seo_tasks", "page_performance"}
  /\ pc = "idle" /\ ui.tasks = "no_open" /\ ui.products = "error"

\* C9 (as claimed): when the task does not exist or the update fails,
\* mark_task_done fails with an exception, after one attempt, with the task
\* table as it was.
C9_MissingOrFailedWriteSurfaced ==
  (MarkCalled /\ (arg \notin DOMAIN before \/ WriteFailed)) =>
     /\ err = "APIError" /\ pc = "error"
     /\ attempts = 1
     /\ seo_tasks = before

\* C9 (amended): when the update fails, mark_task_done fails with an
\* exception, after one attempt, with the task table as it was; when the
\* task does not exist and the update does not fail, it returns normally
\* after one attempt, requests the rerun, and the task table is as it was.
C9_FailedWriteSurfaced ==
  /\ (MarkCalled /\ WriteFailed) =>
        /\ err = "APIError" /\ pc = "error"
        /\ attempts = 1
        /\ seo_tasks = before
  /\ (MarkCalled /\ ~WriteFailed /\ arg \notin DOMAIN before) =>
        /\ err = "none" /\ pc = "get_seo_data"
        /\ attempts = 1
        /\ seo_tasks = before

C9_Witness ==
  /\ MarkCalled /\ WriteFailed
  /\ arg \in DOMAIN before /\ before[arg].status = "pending"
  /\ err = "APIError" /\ seo_tasks = before

\* C10: mark_task_done on a task that is already done leaves the task table
\* as it found it.
C10_MarkDoneIdempotent ==
  (MarkCalled /\ arg \in DOMAIN before /\ before[arg].status = "done") =>
     seo_tasks = before

C10_Witness ==
  /\ MarkCalled /\ ~WriteFailed /\ pc = "get_seo_data"
  /\ arg \in marked
  /\ arg \in DOMAIN before /\ before[arg].status = "done"
  /\ seo_tasks = before

====
